---- MODULE Spec2Model ----
(***************************************************************************)
(* TemporalSelfAttentionV2                                                 *)
(* (code/projects/mmdet3d_plugin/models/attns/temporal_self_attention_v2). *)
(*                                                                         *)
(* The module is modelled at the level of tensor shapes: a tensor is the   *)
(* sequence of its dimension sizes.  The value and reference_points        *)
(* tensors also carry, for every batch slice, whether the slice is real    *)
(* data or zero padding, and the output of the sampling primitive carries  *)
(* one representative number for every batch slice, so that the mask       *)
(* weighted aggregation can be followed.  __init__ and forward are cut     *)
(* into the statements of the source; pc is the position in them.          *)
(***************************************************************************)
EXTENDS Integers, Sequences, FiniteSets, TLC

VARIABLES
    cfg,                \* the constructor's arguments (self.embed_dims, ...)
    pc,                 \* position in __init__ / forward
    dim_per_head,       \* __init__: embed_dims // num_heads
    warned,             \* __init__: warnings.warn was called
    layers,             \* the four learned layers, by their feature counts
    is_init,            \* self._is_init
    args,               \* the arguments of the running forward call
    query,              \* forward's local `query` (shape)
    value,              \* forward's local `value` (shape)
    value_slots,        \* per batch slice of value: "real" or "zero"
    identity,           \* forward's local `identity` (shape)
    reference_points,   \* forward's local `reference_points` (shape)
    ref_slots,          \* per batch slice of reference_points
    lack,               \* forward's local `lack`
    mask,               \* forward's local `mask` (its entries)
    sampling_offsets,   \* shape
    attention_weights,  \* shape
    sampling_locations, \* shape, encoding and per-level divisor
    output,             \* forward's local `output` (shape)
    out,                \* the primitive's output, one number per batch slice
    agg,                \* the aggregated output: numerator and denominator
    ret,                \* the returned tensor (shape)
    err                 \* the exception forward or __init__ raised

ctor_vars == <<cfg, dim_per_head, warned, layers, is_init>>
call_vars == <<args, query, value, value_slots, identity, reference_points,
               ref_slots, lack, mask, sampling_offsets, attention_weights,
               sampling_locations, output, out, agg, ret>>
vars == <<pc, err, ctor_vars, call_vars>>

-----------------------------------------------------------------------------
(* Bounds of the model *)

MaxQueue == 3       \* num_bev_queue ranges over 1..MaxQueue
MaxBatch == 2       \* the query's batch size ranges over 1..MaxBatch
MaxLevels == 2      \* num_levels and the number of rows of spatial_shapes
MaxEmbed == 8       \* embed_dims given to __init__ ranges over 1..MaxEmbed
MaxHeads == 3       \* num_heads given to __init__ ranges over 1..MaxHeads

\* (height, width) of a feature level
LevelShapes == {<<1, 2>>, <<2, 2>>}
\* num_query of a call
NumQueries == {2, 4}
\* last dimension of reference_points
RefDims == {2, 3, 4}
\* what the sampling primitive may return for one batch slice
OutVals == {0, 1, 3}
\* (embed_dims, num_heads, num_points) of the modules forward is run on
ForwardDims == {<<8, 2, 2>>}
\* the optional arguments a call passes
GivenArgs == {{}, {"identity", "query_pos", "key_padding_mask"}}

-----------------------------------------------------------------------------
(* Tensor shapes and the torch operations forward uses on them *)

NoneT == << >>          \* Python's None for an optional tensor argument
Fail == << -1 >>        \* the operation raised

Min(a, b) == IF a < b THEN a ELSE b
Max(a, b) == IF a > b THEN a ELSE b

RECURSIVE Numel(_)
Numel(s) == IF s = << >> THEN 1 ELSE Head(s) * Numel(Tail(s))

RECURSIVE SumSeq(_)
SumSeq(s) == IF s = << >> THEN 0 ELSE Head(s) + SumSeq(Tail(s))

\* tensor.permute(*p), p zero-based as in the source
Permute(s, p) == [i \in 1..Len(p) |-> s[p[i] + 1]]

\* torch.cat([a, b], dim), dim one-based here: every other size must agree
Cat(a, b, dim) ==
    IF Len(a) = Len(b) /\ \A i \in 1..Len(a) : i # dim => a[i] = b[i]
    THEN [i \in 1..Len(a) |-> IF i = dim THEN a[i] + b[i] ELSE a[i]]
    ELSE Fail

\* broadcasting of two shapes of the same rank
Broadcast(a, b) ==
    IF Len(a) = Len(b)
       /\ \A i \in 1..Len(a) : a[i] = b[i] \/ a[i] = 1 \/ b[i] = 1
    THEN [i \in 1..Len(a) |-> IF a[i] = 1 THEN b[i] ELSE a[i]]
    ELSE Fail

\* tensor.view(*t): the element counts must agree
View(s, t) == IF Numel(s) = Numel(t) THEN t ELSE Fail

\* new_zeros taking a negative size for an empty one
NewZeros_clamped(size) == [i \in 1..Len(size) |-> Max(size[i], 0)]

\* tensor.new_zeros(size): a negative size raises
NewZeros(size) ==
    IF \E i \in 1..Len(size) : size[i] < 0 THEN Fail ELSE size

\* the length of tensor[:stop] along an axis of length n (Python slicing)
SliceStop(n, stop) ==
    IF stop < 0 THEN Max(n + stop, 0) ELSE Min(stop, n)

-----------------------------------------------------------------------------
(* __init__ and init_weights *)

\* n & m on non-negative integers
RECURSIVE BitAnd(_, _)
BitAnd(n, m) ==
    IF n = 0 \/ m = 0 THEN 0
    ELSE (n % 2) * (m % 2) + 2 * BitAnd(n \div 2, m \div 2)

\* _is_power_of_2 read as n & ((n - 1) == 0)
_is_power_of_2_precedence(n) == n = 1

\* _is_power_of_2: (n & (n - 1) == 0) and n != 0, for an int n >= 0
\* (n = 0 is decided by the second conjunct alone: 0 & -1 is 0)
_is_power_of_2(n) == n # 0 /\ BitAnd(n, n - 1) = 0

\* the check of __init__'s first statement
DivisibleByHeads(embed_dims, num_heads) == embed_dims % num_heads = 0

NoLayers ==
    [sampling_offsets  |-> [in |-> 0, out |-> 0, bias |-> 0],
     attention_weights |-> [in |-> 0, out |-> 0],
     value_proj        |-> [in |-> 0, out |-> 0],
     output_proj       |-> [in |-> 0, out |-> 0]]

\* the layers with inputs of width embed_dims, not embed_dims * num_bev_queue
BuildLayers_single(c) ==
    [sampling_offsets  |->
        [in   |-> c.embed_dims,
         out  |-> c.num_bev_queue * c.num_heads * c.num_levels * c.num_points * 2,
         bias |-> c.num_bev_queue * c.num_heads * c.num_levels * c.num_points * 2],
     attention_weights |->
        [in   |-> c.embed_dims,
         out  |-> c.num_bev_queue * c.num_heads * c.num_levels * c.num_points],
     value_proj        |-> [in |-> c.embed_dims, out |-> c.embed_dims],
     output_proj       |-> [in |-> c.embed_dims, out |-> c.embed_dims]]

\* the nn.Conv2d and the three nn.Linear that __init__ creates
BuildLayers(c) ==
    [sampling_offsets  |->
        [in   |-> c.embed_dims * c.num_bev_queue,
         out  |-> c.num_bev_queue * c.num_heads * c.num_levels * c.num_points * 2,
         bias |-> c.num_bev_queue * c.num_heads * c.num_levels * c.num_points * 2],
     attention_weights |->
        [in   |-> c.embed_dims * c.num_bev_queue,
         out  |-> c.num_bev_queue * c.num_heads * c.num_levels * c.num_points],
     value_proj        |-> [in |-> c.embed_dims, out |-> c.embed_dims],
     output_proj       |-> [in |-> c.embed_dims, out |-> c.embed_dims]]

\* init_weights: grid_init has shape (num_heads, num_levels * num_bev_queue,
\* num_points, 2); its flattening replaces the bias of sampling_offsets
GridInit(c) == <<c.num_heads, c.num_levels * c.num_bev_queue, c.num_points, 2>>

\* nn.Linear applied to a tensor: the last dimension must be in_features
Linear(layer, s) ==
    IF s # << >> /\ s[Len(s)] = layer.in
    THEN [s EXCEPT ![Len(s)] = layer.out]
    ELSE Fail

\* nn.Conv2d(kernel_size=3, stride=1, padding=1) applied to (N, C, H, W):
\* C must be in_channels, height and width are kept
Conv2d(layer, s) ==
    IF Len(s) = 4 /\ s[2] = layer.in
    THEN <<s[1], layer.out, s[3], s[4]>>
    ELSE Fail

\* the state of forward's locals when no call is running
Idle ==
    /\ args = [query |-> NoneT, value |-> NoneT, identity |-> NoneT,
               query_pos |-> NoneT, key_padding_mask |-> NoneT,
               reference_points |-> NoneT, spatial_shapes |-> << >>]
    /\ query = NoneT
    /\ value = NoneT
    /\ value_slots = << >>
    /\ identity = NoneT
    /\ reference_points = NoneT
    /\ ref_slots = << >>
    /\ lack = 0
    /\ mask = << >>
    /\ sampling_offsets = NoneT
    /\ attention_weights = NoneT
    /\ sampling_locations = [shape |-> NoneT, encoding |-> "none", divisor |-> << >>]
    /\ output = NoneT
    /\ out = << >>
    /\ agg = [num |-> 0, den |-> 0]
    /\ ret = NoneT

\* the arguments __init__ is called with
CtorArgs ==
    [embed_dims : 1..MaxEmbed, num_heads : 1..MaxHeads,
     num_levels : 1..MaxLevels, num_points : {2},
     num_bev_queue : 1..MaxQueue, batch_first : BOOLEAN]

InitCtor ==
    /\ cfg \in CtorArgs
    /\ pc = "ctor"
    /\ err = ""
    /\ dim_per_head = 0
    /\ warned = FALSE
    /\ layers = NoLayers
    /\ is_init = FALSE
    /\ Idle

\* lines 63-66
CtorValidate ==
    /\ pc = "ctor"
    /\ IF ~DivisibleByHeads(cfg.embed_dims, cfg.num_heads)
       THEN /\ pc' = "ctor_raised"
            /\ err' = "ValueError: embed_dims must be divisible by num_heads"
            /\ UNCHANGED dim_per_head
       ELSE /\ pc' = "ctor_power"
            /\ dim_per_head' = cfg.embed_dims \div cfg.num_heads
            /\ UNCHANGED err
    /\ UNCHANGED <<cfg, warned, layers, is_init, call_vars>>

\* lines 67-86
CtorPowerOfTwo ==
    /\ pc = "ctor_power"
    /\ warned' = ~_is_power_of_2(dim_per_head)
    /\ pc' = "ctor_layers"
    /\ UNCHANGED <<cfg, dim_per_head, layers, is_init, err, call_vars>>

\* lines 88-101
CtorLayers ==
    /\ pc = "ctor_layers"
    /\ layers' = BuildLayers(cfg)
    /\ pc' = "init_weights"
    /\ UNCHANGED <<cfg, dim_per_head, warned, is_init, err, call_vars>>

\* lines 102-123
InitWeights ==
    /\ pc = "init_weights"
    /\ layers' = [layers EXCEPT !.sampling_offsets.bias = Numel(GridInit(cfg))]
    /\ is_init' = TRUE
    /\ pc' = "idle"
    /\ UNCHANGED <<cfg, dim_per_head, warned, err, call_vars>>

NextCtor == CtorValidate \/ CtorPowerOfTwo \/ CtorLayers \/ InitWeights

SpecCtor == InitCtor /\ [][NextCtor]_vars

-----------------------------------------------------------------------------
(* forward: its arguments *)

\* the modules forward is run on: every one __init__ completes for
ForwardConfigs ==
    {c \in [embed_dims : {d[1] : d \in ForwardDims},
            num_heads : {d[2] : d \in ForwardDims},
            num_points : {d[3] : d \in ForwardDims},
            num_levels : 1..MaxLevels,
            num_bev_queue : 1..MaxQueue,
            batch_first : BOOLEAN] :
        <<c.embed_dims, c.num_heads, c.num_points>> \in ForwardDims}

\* spatial_shapes: one (height, width) row per level
SpatialShapes == UNION {[1..n -> LevelShapes] : n \in 1..MaxLevels}

\* (spatial_shapes[:, 0] * spatial_shapes[:, 1]).sum()
SumHW(ss) == SumSeq([l \in 1..Len(ss) |-> ss[l][1] * ss[l][2]])

\* a (batch, n, embed) shape in the layout the caller uses
Layout(s) == IF cfg.batch_first THEN s ELSE <<s[2], s[1], s[3]>>

\* the value tensors a caller passes for a query of num_query positions:
\* none, or any batch size from 0 to one more than the queue holds
Values(nq, ss) ==
    {NoneT} \cup
    {<<vb, nv, dims>> : vb \in 0..(MaxQueue + 1), nv \in {nq, SumHW(ss)},
                        dims \in {cfg.embed_dims, 2 * cfg.embed_dims}}

Init ==
    /\ cfg \in ForwardConfigs
    /\ pc = "idle"
    /\ err = ""
    /\ dim_per_head = cfg.embed_dims \div cfg.num_heads
    /\ warned = ~_is_power_of_2(cfg.embed_dims \div cfg.num_heads)
    /\ layers = BuildLayers(cfg)
    /\ is_init = TRUE
    /\ Idle

Raise(e) == pc' = "raised" /\ err' = e

\* forward(query, value, identity, query_pos, key_padding_mask,
\*         reference_points, spatial_shapes): lines 128-139
Call ==
    /\ pc = "idle"
    /\ \E bs \in 1..MaxBatch, nq \in NumQueries, ss \in SpatialShapes,
          d \in RefDims, given \in GivenArgs :
         \E v \in Values(nq, ss) :
           LET q == <<bs, nq, cfg.embed_dims>>
               vb == IF v = NoneT THEN bs ELSE v[1]
               nv == IF v = NoneT THEN nq ELSE v[2]
           IN /\ args' = [query |-> Layout(q),
                          value |-> IF v = NoneT THEN NoneT ELSE Layout(v),
                          identity |-> IF "identity" \in given THEN Layout(q) ELSE NoneT,
                          query_pos |-> IF "query_pos" \in given THEN Layout(q) ELSE NoneT,
                          key_padding_mask |->
                              IF "key_padding_mask" \in given
                              THEN <<cfg.num_bev_queue, nv>> ELSE NoneT,
                          reference_points |-> <<vb, nq, Len(ss), d>>,
                          spatial_shapes |-> ss]
              /\ query' = Layout(q)
              /\ value' = IF v = NoneT THEN NoneT ELSE Layout(v)
              /\ identity' = IF "identity" \in given THEN Layout(q) ELSE NoneT
              /\ reference_points' = <<vb, nq, Len(ss), d>>
              /\ value_slots' = [i \in 1..vb |-> "real"]
              /\ ref_slots' = [i \in 1..vb |-> "real"]
    /\ lack' = 0
    /\ mask' = << >>
    /\ sampling_offsets' = NoneT
    /\ attention_weights' = NoneT
    /\ sampling_locations' = [shape |-> NoneT, encoding |-> "none", divisor |-> << >>]
    /\ output' = NoneT
    /\ out' = << >>
    /\ agg' = [num |-> 0, den |-> 0]
    /\ ret' = NoneT
    /\ pc' = "defaults"
    /\ err' = ""
    /\ UNCHANGED ctor_vars

\* lines 176-182
Defaults ==
    /\ pc = "defaults"
    /\ value' = IF value = NoneT THEN query ELSE value
    /\ identity' = IF identity = NoneT THEN query ELSE identity
    /\ query' = IF args.query_pos # NoneT
                THEN Broadcast(query, args.query_pos) ELSE query
    /\ pc' = "permute"
    /\ UNCHANGED <<err, ctor_vars, args, value_slots, reference_points, ref_slots,
                   lack, mask, sampling_offsets, attention_weights,
                   sampling_locations, output, out, agg, ret>>

\* lines 183-186
PermuteInputs ==
    /\ pc = "permute"
    /\ IF ~cfg.batch_first
       THEN /\ query' = Permute(query, <<1, 0, 2>>)
            /\ value' = Permute(value, <<1, 0, 2>>)
       ELSE UNCHANGED <<query, value>>
    /\ pc' = "shapes"
    /\ UNCHANGED <<err, ctor_vars, args, value_slots, identity, reference_points,
                   ref_slots, lack, mask, sampling_offsets, attention_weights,
                   sampling_locations, output, out, agg, ret>>

\* line 190: the levels of spatial_shapes cover the value positions
LevelsCoverValue(ss, num_value) == SumHW(ss) = num_value

\* lines 188-190
CheckShapes ==
    /\ pc = "shapes"
    /\ IF LevelsCoverValue(args.spatial_shapes, value[2])
       THEN pc' = "pad_query" /\ UNCHANGED err
       ELSE Raise("AssertionError")
    /\ UNCHANGED <<ctor_vars, call_vars>>

-----------------------------------------------------------------------------
(* forward: the queue normalizer *)

\* lines 194-198: the query after "padding query", for value shape v and
\* query shape q, both (batch, n, embed)
PaddedQuery(lk, v, q) ==
    IF lk = 0 /\ v[1] > 1
    THEN Cat(<<SliceStop(v[1], -1), v[2], v[3]>>, q, 3)
    ELSE IF lk = 1
         THEN Cat(<<SliceStop(v[1], 1) * lk, v[2], v[3]>>, q, 3)
         ELSE q

\* lines 192-198
PadQuery ==
    /\ pc = "pad_query"
    /\ lack' = cfg.num_bev_queue - value[1]
    /\ LET q == PaddedQuery(cfg.num_bev_queue - value[1], value, query)
       IN IF q = Fail
          THEN Raise("RuntimeError: torch.cat") /\ UNCHANGED query
          ELSE query' = q /\ pc' = "pad_value" /\ UNCHANGED err
    /\ UNCHANGED <<ctor_vars, args, value, value_slots, identity, reference_points,
                   ref_slots, mask, sampling_offsets, attention_weights,
                   sampling_locations, output, out, agg, ret>>

\* lines 201-202: the batch slices put in front of value and reference_points
PaddingZeros(lk, shape) == NewZeros(<<lk>> \o Tail(shape))

\* the slices of torch.cat([padding, tensor], 0)
PaddedSlots(lk, slots) == [i \in 1..lk |-> "zero"] \o slots

\* lines 200-204
PadValue ==
    /\ pc = "pad_value"
    /\ LET pz  == PaddingZeros(lack, value)
           pzr == PaddingZeros(lack, reference_points)
       IN IF pz = Fail \/ pzr = Fail
          THEN /\ Raise("RuntimeError: negative dimension")
               /\ UNCHANGED <<value, value_slots, reference_points, ref_slots>>
          ELSE /\ value' = Cat(pz, value, 1)
               /\ reference_points' = Cat(pzr, reference_points, 1)
               /\ value_slots' = PaddedSlots(lack, value_slots)
               /\ ref_slots' = PaddedSlots(lack, ref_slots)
               /\ pc' = "value_mask"
               /\ UNCHANGED err
    /\ UNCHANGED <<ctor_vars, args, query, identity, lack, mask, sampling_offsets,
                   attention_weights, sampling_locations, output, out, agg, ret>>

\* the mask with its last lk entries zeroed (mask[-lk:] = 0 for lk > 0)
ValidityMask_tail(n, lk) == [i \in 1..n |-> IF i > n - lk THEN 0 ELSE 1]

\* lines 207-208: new_ones([n]) with mask[:lk] = 0
ValidityMask(n, lk) == [i \in 1..n |-> IF i <= SliceStop(n, lk) THEN 0 ELSE 1]

\* lines 206-208
ValueMask ==
    /\ pc = "value_mask"
    /\ mask' = ValidityMask(cfg.num_bev_queue, lack)
    /\ pc' = "value_proj"
    /\ UNCHANGED <<err, ctor_vars, args, query, value, value_slots, identity,
                   reference_points, ref_slots, lack, sampling_offsets,
                   attention_weights, sampling_locations, output, out, agg, ret>>

\* tensor.reshape(a, b, c, -1)
ReshapeInfer(s, a, b, c) ==
    IF a * b * c > 0 /\ Numel(s) % (a * b * c) = 0
    THEN <<a, b, c, Numel(s) \div (a * b * c)>>
    ELSE Fail

\* lines 209-214: value_proj, masked_fill by key_padding_mask[..., None], reshape
ProjectedValue(v, kpm) ==
    LET p == Linear(layers.value_proj, v)
    IN IF p = Fail THEN Fail
       ELSE IF kpm # NoneT /\ Broadcast(p, kpm \o <<1>>) # p THEN Fail
       ELSE ReshapeInfer(p, cfg.num_bev_queue, v[2], cfg.num_heads)

ValueProj ==
    /\ pc = "value_proj"
    /\ LET v == ProjectedValue(value, args.key_padding_mask)
       IN IF v = Fail
          THEN Raise("RuntimeError: value_proj") /\ UNCHANGED value
          ELSE value' = v /\ pc' = "offsets" /\ UNCHANGED err
    /\ UNCHANGED <<ctor_vars, args, query, value_slots, identity, reference_points,
                   ref_slots, lack, mask, sampling_offsets, attention_weights,
                   sampling_locations, output, out, agg, ret>>

-----------------------------------------------------------------------------
(* forward: the offset and weight predictor *)

\* line 218: the query as a (bs, _dims, height_0, width_0) grid
SpatialQuery(q, ss) ==
    View(Permute(q, <<0, 2, 1>>), <<q[1], q[3], ss[1][1], ss[1][2]>>)

\* lines 219-222: the convolution, and its output per
\* (bs, num_query, head, queue slot, level, point, xy)
PredictedOffsets(q, grid) ==
    LET c == IF grid = Fail THEN Fail ELSE Conv2d(layers.sampling_offsets, grid)
    IN IF c = Fail THEN Fail
       ELSE View(Permute(c, <<0, 2, 3, 1>>),
                 <<q[1], q[2], cfg.num_heads, cfg.num_bev_queue,
                   cfg.num_levels, cfg.num_points, 2>>)

\* lines 216-222
SamplingOffsets ==
    /\ pc = "offsets"
    /\ LET grid == SpatialQuery(query, args.spatial_shapes)
           so   == PredictedOffsets(query, grid)
       IN IF so = Fail
          THEN /\ Raise("RuntimeError: sampling_offsets")
               /\ UNCHANGED <<query, sampling_offsets>>
          ELSE /\ query' = grid
               /\ sampling_offsets' = so
               /\ pc' = "weights"
               /\ UNCHANGED err
    /\ UNCHANGED <<ctor_vars, args, value, value_slots, identity, reference_points,
                   ref_slots, lack, mask, attention_weights, sampling_locations,
                   output, out, agg, ret>>

\* lines 235-238: permute the queue slot axis (axis 3) to the front and view
\* it merged with the batch axis; the two axes merge only when one of them
\* has length 1, since the permuted tensor is not contiguous
SlotsToBatch(s) ==
    IF s[1] = 1 \/ s[4] = 1
    THEN <<s[1] * s[4], s[2], s[3]>> \o SubSeq(s, 5, Len(s))
    ELSE Fail

\* lines 224-233: the weights per (bs, num_query, head, queue slot, level, point)
PredictedWeights(flat) ==
    LET w == Linear(layers.attention_weights, flat)
    IN IF w = Fail THEN Fail
       ELSE View(w, <<flat[1], flat[2], cfg.num_heads, cfg.num_bev_queue,
                      cfg.num_levels, cfg.num_points>>)

\* lines 224-238
AttentionWeights ==
    /\ pc = "weights"
    /\ LET bs   == sampling_offsets[1]
           nq   == sampling_offsets[2]
           flat == View(Permute(query, <<0, 2, 3, 1>>), <<bs, nq, query[2]>>)
           w    == IF flat = Fail THEN Fail ELSE PredictedWeights(flat)
           aw   == IF w = Fail THEN Fail ELSE SlotsToBatch(w)
           so   == SlotsToBatch(sampling_offsets)
       IN IF aw = Fail \/ so = Fail
          THEN /\ Raise("RuntimeError: attention_weights")
               /\ UNCHANGED <<query, attention_weights, sampling_offsets>>
          ELSE /\ query' = flat
               /\ attention_weights' = aw
               /\ sampling_offsets' = so
               /\ pc' = "locations"
               /\ UNCHANGED err
    /\ UNCHANGED <<ctor_vars, args, value, value_slots, identity, reference_points,
                   ref_slots, lack, mask, sampling_locations, output, out, agg, ret>>

-----------------------------------------------------------------------------
(* forward: sampling and aggregation *)

\* the normalizer in the (height, width) order of spatial_shapes
OffsetNormalizer_hw(ss) == [l \in 1..Len(ss) |-> <<ss[l][1], ss[l][2]>>]

\* lines 241-242: torch.stack([spatial_shapes[..., 1], spatial_shapes[..., 0]], -1),
\* per level the pair that divides the (x, y) offset
OffsetNormalizer(ss) == [l \in 1..Len(ss) |-> <<ss[l][2], ss[l][1]>>]

\* a tensor with a level axis of length Len(t), seen at level l of a
\* broadcast result (a single level serves every level)
AtLevel(t, l) == t[IF Len(t) = 1 THEN 1 ELSE l]

\* lines 243-245: reference_points[:, :, None, :, None, :]
\*                + sampling_offsets / offset_normalizer[None, None, None, :, None, :]
PointLocations(ref, so, ss) ==
    LET r6    == <<ref[1], ref[2], 1, ref[3], 1, ref[4]>>
        n6    == <<1, 1, 1, Len(ss), 1, 2>>
        q     == Broadcast(so, n6)
        shape == IF q = Fail THEN Fail ELSE Broadcast(r6, q)
    IN [shape    |-> shape,
        encoding |-> "point",
        divisor  |-> IF shape = Fail THEN << >>
                     ELSE [l \in 1..shape[4] |-> AtLevel(OffsetNormalizer(ss), l)]]

\* lines 247-250: reference_points[..., :2]
\*                + sampling_offsets / num_points * reference_points[..., 2:] * 0.5
BoxLocations(ref, so) ==
    LET r6    == <<ref[1], ref[2], 1, ref[3], 1, 2>>
        shape == Broadcast(r6, so)
    IN [shape    |-> shape,
        encoding |-> "box",
        divisor  |-> IF shape = Fail THEN << >>
                     ELSE [l \in 1..shape[4] |-> <<cfg.num_points, cfg.num_points>>]]

\* any encoding accepted: every last dimension but 2 takes the box branch
RefEncodings_any == RefDims

\* lines 240-254: the encodings of reference_points forward accepts
RefEncodings == {2, 4}

\* lines 240-254
SamplingLocations ==
    /\ pc = "locations"
    /\ LET d   == reference_points[4]
           loc == IF d = 2
                  THEN PointLocations(reference_points, sampling_offsets,
                                      args.spatial_shapes)
                  ELSE BoxLocations(reference_points, sampling_offsets)
       IN IF d \notin RefEncodings
          THEN /\ Raise("ValueError: Last dim of reference_points must be 2 or 4")
               /\ UNCHANGED sampling_locations
          ELSE IF loc.shape = Fail
               THEN /\ Raise("RuntimeError: sampling_locations")
                    /\ UNCHANGED sampling_locations
               ELSE /\ sampling_locations' = loc
                    /\ pc' = "sample"
                    /\ UNCHANGED err
    /\ UNCHANGED <<ctor_vars, args, query, value, value_slots, identity,
                   reference_points, ref_slots, lack, mask, sampling_offsets,
                   attention_weights, output, out, agg, ret>>

\* line 266: what multi_scale_deformable_attn_pytorch needs of its arguments:
\* value (bs, num_value, heads, head_dim), sampling_locations and
\* attention_weights of the same batch, a location level for every row of
\* spatial_shapes, and weights for every (level, point) it samples
PortableAccepts(v, ss, loc, aw) ==
    /\ v[1] = loc[1]
    /\ Len(ss) <= loc[4]
    /\ Numel(aw) = v[1] * loc[3] * loc[2] * loc[4] * loc[5]
    /\ Len(ss) * loc[5] = loc[4] * loc[5] \/ Len(ss) * loc[5] = 1 \/ loc[4] * loc[5] = 1

\* lines 262-267: the primitive's output, (bs, num_query, heads * head_dim)
PrimitiveShape(v, loc) == <<v[1], loc[2], v[3] * v[4]>>

\* lines 255-267: the accelerator primitive does not check its arguments
\* against each other, so on arguments the portable one refuses it either
\* fails or returns
Sample ==
    /\ pc = "sample"
    /\ \E cuda \in BOOLEAN, proceeds \in BOOLEAN :
         LET ok == PortableAccepts(value, args.spatial_shapes,
                                   sampling_locations.shape, attention_weights)
         IN IF ok \/ (cuda /\ proceeds)
            THEN /\ output' = PrimitiveShape(value, sampling_locations.shape)
                 /\ out' \in [1..value[1] -> OutVals]
                 /\ pc' = "aggregate"
                 /\ UNCHANGED err
            ELSE /\ Raise("RuntimeError: deformable attention")
                 /\ UNCHANGED <<output, out>>
    /\ UNCHANGED <<ctor_vars, args, query, value, value_slots, identity,
                   reference_points, ref_slots, lack, mask, sampling_offsets,
                   attention_weights, sampling_locations, agg, ret>>

\* the plain mean over the queue slots
AggregationDivisor_mean(m) == Len(m)

\* line 269: the divisor of the aggregation
AggregationDivisor(m) == SumSeq(m)

\* lines 268-269: (output.permute(1, 2, 0) * mask[None, None, :]).sum(-1) / mask.sum(),
\* for the per-slice numbers o of the primitive's output and the mask entries m
Aggregated(o, m) ==
    LET n == IF Len(o) = 1 THEN Len(m) ELSE Len(o)
    IN [num |-> SumSeq([i \in 1..n |-> AtLevel(o, i) * AtLevel(m, i)]),
        den |-> AggregationDivisor(m)]

\* lines 268-270
Aggregate ==
    /\ pc = "aggregate"
    /\ LET prod == Broadcast(Permute(output, <<1, 2, 0>>), <<1, 1, Len(mask)>>)
       IN IF prod = Fail
          THEN Raise("RuntimeError: mask") /\ UNCHANGED <<output, agg>>
          ELSE /\ agg' = Aggregated(out, mask)
               /\ output' = Permute(<<prod[1], prod[2], 1>>, <<2, 0, 1>>)
               /\ pc' = "project"
               /\ UNCHANGED err
    /\ UNCHANGED <<ctor_vars, args, query, value, value_slots, identity,
                   reference_points, ref_slots, lack, mask, sampling_offsets,
                   attention_weights, sampling_locations, out, ret>>

\* the output left in (batch, sequence, embed) order
RestoreLayout_kept(o) == o

\* lines 274-276: back to the caller's layout
RestoreLayout(o) == IF ~cfg.batch_first THEN Permute(o, <<1, 0, 2>>) ELSE o

\* lines 272-276
OutputProj ==
    /\ pc = "project"
    /\ LET o == Linear(layers.output_proj, output)
       IN IF o = Fail
          THEN Raise("RuntimeError: output_proj") /\ UNCHANGED output
          ELSE output' = RestoreLayout(o) /\ pc' = "residual" /\ UNCHANGED err
    /\ UNCHANGED <<ctor_vars, args, query, value, value_slots, identity,
                   reference_points, ref_slots, lack, mask, sampling_offsets,
                   attention_weights, sampling_locations, out, agg, ret>>

\* line 278: self.dropout(output) + identity
Return ==
    /\ pc = "residual"
    /\ LET r == Broadcast(output, identity)
       IN IF r = Fail
          THEN Raise("RuntimeError: identity") /\ UNCHANGED ret
          ELSE ret' = r /\ pc' = "returned" /\ UNCHANGED err
    /\ UNCHANGED <<ctor_vars, args, query, value, value_slots, identity,
                   reference_points, ref_slots, lack, mask, sampling_offsets,
                   attention_weights, sampling_locations, output, out, agg>>

Next ==
    \/ Call
    \/ Defaults
    \/ PermuteInputs
    \/ CheckShapes
    \/ PadQuery
    \/ PadValue
    \/ ValueMask
    \/ ValueProj
    \/ SamplingOffsets
    \/ AttentionWeights
    \/ SamplingLocations
    \/ Sample
    \/ Aggregate
    \/ OutputProj
    \/ Return

Spec == Init /\ [][Next]_vars

-----------------------------------------------------------------------------
(* Vocabulary of the properties *)

Running == pc \notin {"ctor", "ctor_power", "ctor_layers", "init_weights",
                      "ctor_raised", "idle"}

\* the batch size and the sequence length of an argument in the caller's layout
ArgBatch(s) == IF cfg.batch_first THEN s[1] ELSE s[2]
ArgLen(s) == IF cfg.batch_first THEN s[2] ELSE s[1]

\* _bs, num_value and dims of the call: those of value, or of query without one
GivenBatch == ArgBatch(IF args.value = NoneT THEN args.query ELSE args.value)
GivenNumValue == ArgLen(IF args.value = NoneT THEN args.query ELSE args.value)
GivenDims == IF args.value = NoneT THEN args.query[3] ELSE args.value[3]

Height(level) == level[1]
Width(level) == level[2]

\* positions of forward at which the mask has been built
MaskBuilt == {"value_proj", "offsets", "weights", "locations", "sample",
              "aggregate", "project", "residual", "returned"}
\* positions at which the sampling locations have been computed
Located == {"sample", "aggregate", "project", "residual", "returned"}
\* positions at which the aggregation has been done
AggregationDone == {"project", "residual", "returned"}
\* the aggregation step and everything after it
AggregationReached == {"aggregate"} \cup AggregationDone

\* s[a] + ... + s[Len(s)]
RECURSIVE SumFrom(_, _)
SumFrom(s, a) == IF a > Len(s) THEN 0 ELSE s[a] + SumFrom(s, a + 1)

IsPowerOfTwo(n) == \E k \in 0..n : 2 ^ k = n

-----------------------------------------------------------------------------
(* Properties *)

\* C1: for every num_bev_queue and every value batch size _bs in
\* 1..num_bev_queue (value of width embed_dims), after the query padding and
\* the value padding the query's last dimension is embed_dims * num_bev_queue
\* and value and reference_points have batch dimension num_bev_queue.
C1_QueueNormalizer ==
    (pc = "value_mask" /\ GivenBatch \in 1..cfg.num_bev_queue
                       /\ GivenDims = cfg.embed_dims)
    => /\ query[3] = cfg.embed_dims * cfg.num_bev_queue
       /\ value[1] = cfg.num_bev_queue
       /\ reference_points[1] = cfg.num_bev_queue

\* C2: for 0 <= lack <= num_bev_queue the mask has num_bev_queue entries, the
\* first lack of them 0 and the others 1, so that it sums to
\* num_bev_queue - lack; the aggregation sums the slots' outputs weighted by
\* their mask entries and divides by exactly that sum.
C2_ValidityMask ==
    (pc \in MaskBuilt /\ 0 <= lack /\ lack <= cfg.num_bev_queue)
    => /\ Len(mask) = cfg.num_bev_queue
       /\ \A i \in 1..cfg.num_bev_queue : mask[i] = (IF i <= lack THEN 0 ELSE 1)
       /\ SumSeq(mask) = cfg.num_bev_queue - lack
       /\ pc \in AggregationDone /\ Len(out) = cfg.num_bev_queue
          => /\ agg.num = SumFrom(out, lack + 1)
             /\ agg.den = cfg.num_bev_queue - lack

C2_Witness ==
    /\ pc = "returned"
    /\ lack = 1
    /\ mask = <<0, 1>>
    /\ out = <<1, 3>>
    /\ agg = [num |-> 3, den |-> 1]

\* C3: whenever forward returns, in either layout and for lack 0 or 1, the
\* returned tensor has the shape of the query that was passed in.
C3_ShapeRoundTrip == pc = "returned" => ret = args.query

C3_Witness ==
    /\ pc = "returned"
    /\ ~cfg.batch_first
    /\ lack = 1
    /\ args.query = <<4, 1, 8>>
    /\ query = <<1, 4, 16>>

\* C4: scenario A (embed_dims 8, num_heads 2, num_levels 1, num_points 2,
\* num_bev_queue 2, one 2x2 level, num_query 4, batch 2, so lack = 0):
\* forward completes without error and returns a tensor of shape (4, 2, 8).
ScenarioA ==
    /\ Running
    /\ cfg = [embed_dims |-> 8, num_heads |-> 2, num_levels |-> 1, num_points |-> 2,
              num_bev_queue |-> 2, batch_first |-> FALSE]
    /\ args.query = <<4, 2, 8>>
    /\ args.value \in {NoneT, <<4, 2, 8>>}
    /\ args.spatial_shapes = << <<2, 2>> >>
    /\ args.reference_points = <<2, 4, 1, 2>>

C4_ScenarioA ==
    ScenarioA => /\ pc # "raised"
                 /\ pc = "returned" => ret = <<4, 2, 8>>

\* C5: scenario B (num_bev_queue 2, value batch 1, so lack = 1): before the
\* value projection value and reference_points have batch 2 with a zero slice
\* in slot 0, the mask is [0, 1], and the aggregated tensor is the primitive's
\* output for slot 1 alone, not halved, whatever it returned for slot 0.
C5_ScenarioB ==
    (Running /\ cfg.num_bev_queue = 2 /\ GivenBatch = 1)
    => /\ pc \in {"value_mask", "value_proj"}
          => /\ value[1] = 2 /\ value_slots = <<"zero", "real">>
             /\ reference_points[1] = 2 /\ ref_slots = <<"zero", "real">>
       /\ pc \in MaskBuilt => mask = <<0, 1>>
       /\ pc \in AggregationDone => agg = [num |-> out[2], den |-> 1]

C5_Witness ==
    /\ pc = "returned"
    /\ cfg.num_bev_queue = 2
    /\ GivenBatch = 1
    /\ out = <<3, 1>>
    /\ agg = [num |-> 1, den |-> 1]

\* C6: when the levels of spatial_shapes do not sum to num_value, or the
\* last dimension of reference_points is neither 2 nor 4, forward raises: it
\* returns no tensor, whole or partial, and nothing runs after the error.
C6_ShapeContract ==
    /\ (Running /\ SumHW(args.spatial_shapes) # GivenNumValue)
       => /\ pc \in {"defaults", "permute", "shapes", "raised"}
          /\ ret = NoneT
          /\ pc # "raised" => ENABLED Next
    /\ (Running /\ args.reference_points[4] \notin {2, 4})
       => /\ pc \notin Located
          /\ ret = NoneT
          /\ pc # "raised" => ENABLED Next
    /\ pc = "raised" => err # "" /\ ret = NoneT /\ ~ENABLED Next

C6_Witness ==
    /\ pc = "raised"
    /\ err = "ValueError: Last dim of reference_points must be 2 or 4"
    /\ args.reference_points[4] = 3
    /\ SumHW(args.spatial_shapes) = GivenNumValue

\* C7: __init__ raises when embed_dims is not divisible by num_heads;
\* otherwise it runs to completion, and it warns exactly when
\* embed_dims // num_heads is not a power of two.
C7_Construction ==
    (pc # "ctor" /\ ~Running) =>
       IF \E k \in 1..cfg.embed_dims : k * cfg.num_heads = cfg.embed_dims
       THEN /\ pc # "ctor_raised"
            /\ err = ""
            /\ pc \in {"ctor_layers", "init_weights", "idle"}
               => (warned <=> ~IsPowerOfTwo(cfg.embed_dims \div cfg.num_heads))
            /\ pc = "idle" => is_init
            /\ pc # "idle" => ENABLED NextCtor
       ELSE /\ pc = "ctor_raised"
            /\ err # ""
            /\ ~warned
            /\ ~is_init

C7_Witness ==
    /\ pc = "idle"
    /\ is_init
    /\ warned
    /\ cfg.embed_dims = 6
    /\ cfg.num_heads = 2

\* C8: when lack = num_bev_queue (no real slot, mask sum 0) forward raises:
\* it never reaches the aggregation that divides by the mask sum, and it
\* returns no tensor.
C8_EmptyQueue ==
    (Running /\ GivenBatch = 0)
    => /\ pc \notin AggregationReached
       /\ ret = NoneT
       /\ pc # "raised" => ENABLED Next

C8_Witness ==
    /\ pc = "raised"
    /\ GivenBatch = 0
    /\ lack = cfg.num_bev_queue
    /\ mask = <<0, 0>>

\* C9: with 2-component reference points the offset of every level l is
\* divided by (width_l, height_l): x by spatial_shapes[l][1], the width, and
\* y by spatial_shapes[l][0], the height.
C9_OffsetNormalizer ==
    (pc \in Located /\ reference_points[4] = 2)
    => /\ sampling_locations.encoding = "point"
       /\ Len(sampling_locations.divisor) >= Len(args.spatial_shapes)
       /\ \A l \in 1..Len(args.spatial_shapes) :
            /\ sampling_locations.divisor[l][1] = Width(args.spatial_shapes[l])
            /\ sampling_locations.divisor[l][2] = Height(args.spatial_shapes[l])

C9_Witness ==
    /\ pc = "returned"
    /\ reference_points[4] = 2
    /\ args.spatial_shapes = << <<1, 2>>, <<2, 2>> >>
    /\ sampling_locations.divisor = << <<2, 1>>, <<2, 2>> >>

\* C10: when the value batch size exceeds num_bev_queue (lack < 0) forward
\* raises before any aggregation: no mask is built with the negative lack and
\* nothing is returned.
C10_QueueOverflow ==
    (Running /\ GivenBatch > cfg.num_bev_queue)
    => /\ pc \in {"defaults", "permute", "shapes", "pad_query", "pad_value", "raised"}
       /\ mask = << >>
       /\ ret = NoneT
       /\ pc # "raised" => ENABLED Next

C10_Witness ==
    /\ pc = "raised"
    /\ err = "RuntimeError: negative dimension"
    /\ lack < 0

====
